---- MODULE Spec2Model ----
(***************************************************************************)
(* Mama Doner Mini App (rqnsq/doner_bot): the SQLite stores of             *)
(* app/database/service.py, the HTTP handlers of app/web/routes.py and the *)
(* bot handlers of app/bot/handlers.py, as one state machine.              *)
(*                                                                         *)
(* Every handler is a coroutine; it can be suspended at each await, so a   *)
(* handler is cut into one action per access to the database (the first    *)
(* one taken together with the arrival of the event, which touches no      *)
(* shared state).  Handlers of different events interleave freely, as      *)
(* aiohttp and the aiogram dispatcher run each event as its own task.      *)
(*                                                                         *)
(* Money is counted in hundredths: the REAL 120.0 is 12000.  The seeded    *)
(* prices and the prices of the inputs are whole hundredths, so the float  *)
(* product price * count * 100 is exact here.  Columns no handler reads    *)
(* (description, emoji, timestamps) are left out of the rows.              *)
(***************************************************************************)
EXTENDS Integers, Sequences, FiniteSets, Bags, TLC

VARIABLES
    menu,            \* table menu: set of rows [id, name, price, category, is_active]
    menu_seq,        \* AUTOINCREMENT counter of menu (largest id ever given)
    categories,      \* table categories: set of names (name TEXT NOT NULL UNIQUE)
    pending_orders,  \* table pending_orders: function id -> cart_json
    pending_seq,     \* AUTOINCREMENT counter of pending_orders
    orders,          \* table orders: sequence of rows [id, user_id, items_json, total_price]
    admin_ids,       \* settings.ADMIN_IDS
    bot,             \* app['bot']: TRUE when BOT_TOKEN is set, FALSE in web-only mode
    task,            \* the suspended handler coroutines: a bag of frames (position, locals)
    started,         \* number of handlers that have been suspended so far
    issuer_calls,    \* the create_invoice_link calls made so far: set of [payload, ok]
    sent             \* what the last step sent out: sequence of [re, status, text, arg]

vars == <<menu, menu_seq, categories, pending_orders, pending_seq, orders,
          admin_ids, bot, task, started, issuer_calls, sent>>

db == <<menu, menu_seq, categories, pending_orders, pending_seq, orders>>

config == <<admin_ids, bot>>

(***************************************************************************)
(* Bounds and input sets                                                   *)
(***************************************************************************)
\* how many handlers get past their first database access and are suspended there;
\* the events a handler answers in its first step are not counted
MaxTasks == 3

\* message.from_user is None
NoUser == 0

Range(s) == {s[i] : i \in DOMAIN s}

(***************************************************************************)
(* Strings that the code parses or formats are sequences of characters.    *)
(***************************************************************************)
Digits == <<"0", "1", "2", "3", "4", "5", "6", "7", "8", "9">>

IsDigit(c) == c \in Range(Digits)

DigitVal(c) == (CHOOSE i \in DOMAIN Digits : Digits[i] = c) - 1

IsSpace(c) == c \in {" ", "\t", "\n"}

RECURSIVE LStrip(_)
LStrip(s) ==
    IF s # <<>> /\ IsSpace(Head(s)) THEN LStrip(Tail(s)) ELSE s

RECURSIVE RStrip(_)
RStrip(s) ==
    IF s # <<>> /\ IsSpace(s[Len(s)]) THEN RStrip(SubSeq(s, 1, Len(s) - 1)) ELSE s

Strip(s) == RStrip(LStrip(s))

RECURSIVE DigitsValue(_, _)
DigitsValue(s, acc) ==
    IF s = <<>> THEN acc
    ELSE IF Head(s) = "_" THEN DigitsValue(Tail(s), acc)
    ELSE DigitsValue(Tail(s), acc * 10 + DigitVal(Head(s)))

\* digits, with single underscores allowed between two digits
IsDigitString(s) ==
    /\ s # <<>>
    /\ \A i \in DOMAIN s : IsDigit(s[i]) \/ s[i] = "_"
    /\ IsDigit(s[1]) /\ IsDigit(s[Len(s)])
    /\ \A i \in 1..(Len(s) - 1) : ~(s[i] = "_" /\ s[i + 1] = "_")

Unsigned(s) == IF s # <<>> /\ Head(s) \in {"+", "-"} THEN Tail(s) ELSE s

IsNegative(s) == s # <<>> /\ Head(s) = "-"

\* int(payload): [ok |-> FALSE] stands for ValueError
IntParse(payload) ==
    LET s == Strip(payload)
        d == Unsigned(s)
    IN  IF IsDigitString(d)
        THEN [ok |-> TRUE,
              value |-> IF IsNegative(s) THEN 0 - DigitsValue(d, 0) ELSE DigitsValue(d, 0)]
        ELSE [ok |-> FALSE, value |-> 0]

RECURSIVE Str(_)
\* str(order_id) of a non-negative integer
Str(n) == IF n < 10 THEN <<Digits[n + 1]>> ELSE Str(n \div 10) \o <<Digits[(n % 10) + 1]>>

\* float(parts[2]) and float(price): sign, digits, an optional fraction of up to two
\* digits, or nan (inf and exponents are not among the inputs).  [ok |-> FALSE] stands for ValueError; val is in hundredths.
ParseFloat(tok) ==
    LET s == Strip(tok)
        u == Unsigned(s)
        dot == {i \in DOMAIN u : u[i] = "."}
        whole == IF dot = {} THEN u ELSE SubSeq(u, 1, (CHOOSE i \in dot : TRUE) - 1)
        frac == IF dot = {} THEN <<>> ELSE SubSeq(u, (CHOOSE i \in dot : TRUE) + 1, Len(u))
        bad == [ok |-> FALSE, nan |-> FALSE, neg |-> FALSE, val |-> 0]
    IN  IF u = <<"n", "a", "n">>
        THEN [ok |-> TRUE, nan |-> TRUE, neg |-> FALSE, val |-> 0]
        ELSE IF Cardinality(dot) > 1 \/ Len(frac) > 2 THEN bad
        ELSE IF ~IsDigitString(whole) \/ (frac # <<>> /\ ~IsDigitString(frac)) THEN bad
        ELSE [ok |-> TRUE, nan |-> FALSE, neg |-> IsNegative(s),
              val |-> DigitsValue(whole, 0) * 100
                      + (IF Len(frac) = 1 THEN DigitsValue(frac, 0) * 10
                         ELSE DigitsValue(frac, 0))]

(***************************************************************************)
(* JSON text of a cart.  A cart entry is a dict: a function from some of   *)
(* the keys id, count, price, name.  Its text lists the key/value pairs in *)
(* this order, and loads rebuilds the dict from the pairs.                 *)
(***************************************************************************)
KeyOrder == <<"id", "count", "price", "name">>

RECURSIVE DumpEntry(_, _)
DumpEntry(item, keys) ==
    IF keys = <<>> THEN <<>>
    ELSE IF Head(keys) \in DOMAIN item
         THEN <<<<Head(keys), item[Head(keys)]>>>> \o DumpEntry(item, Tail(keys))
         ELSE DumpEntry(item, Tail(keys))

\* json.dumps(cart_items, ensure_ascii=False)
JsonDumps(cart_items) == [i \in DOMAIN cart_items |-> DumpEntry(cart_items[i], KeyOrder)]

LoadEntry(pairs) ==
    [k \in {pairs[i][1] : i \in DOMAIN pairs} |->
        pairs[CHOOSE i \in DOMAIN pairs : pairs[i][1] = k][2]]

\* json.loads(row['cart_json'])
JsonLoads(text) == [i \in DOMAIN text |-> LoadEntry(text[i])]

(***************************************************************************)
(* init_db: schema and seed data                                           *)
(***************************************************************************)
MenuRow(id, name, price, category) ==
    [id |-> id, name |-> name, price |-> price, category |-> category, is_active |-> TRUE]

\* item names are character sequences, as add_menu_item strips them
ClassicKebab == <<"C", "l", "a", "s", "s", "i", "c", " ", "K", "e", "b", "a", "b">>

CheeseBomb == <<"C", "h", "e", "e", "s", "e", " ", "B", "o", "m", "b">>

SpicyDragon == <<"S", "p", "i", "c", "y", " ", "D", "r", "a", "g", "o", "n">>

VeganStyle == <<"V", "e", "g", "a", "n", " ", "S", "t", "y", "l", "e">>

ColaZero == <<"C", "o", "l", "a", " ", "Z", "e", "r", "o">>

Ayran == <<"A", "y", "r", "a", "n">>

initial_items ==
    << <<ClassicKebab, 12000, "Classic">>,
       <<CheeseBomb, 14000, "Cheese">>,
       <<SpicyDragon, 13500, "Spicy">>,
       <<VeganStyle, 11000, "Vegan">>,
       <<ColaZero, 5000, "Drinks">>,
       <<Ayran, 4000, "Drinks">> >>

seed == {"Classic", "Cheese", "Spicy", "Vegan", "Drinks"}

\* INSERT INTO menu ... for every item of a list, ids from the AUTOINCREMENT counter
InsertMany(m, seqno, items) ==
    m \cup {MenuRow(seqno + i, items[i][1], items[i][2], items[i][3]) : i \in DOMAIN items}

\* the menu after init_db: seeded when the table is empty
SeedMenu(m, seqno) == IF m = {} THEN InsertMany(m, seqno, initial_items) ELSE m

SeedMenuSeq(m, seqno) == IF m = {} THEN seqno + Len(initial_items) ELSE seqno

SeedCategories(c) == IF c = {} THEN seed ELSE c

(***************************************************************************)
(* database/service.py: the store operations                               *)
(***************************************************************************)
\* SELECT * FROM menu: the filter on is_active forgotten
fetch_menu_all(m) == m

\* SELECT * FROM menu WHERE is_active = 1
fetch_menu(m) == {r \in m : r.is_active}

\* the new order written over the stored ones
save_order_replace(o, user_id, cart_items, total_price) ==
    <<[id |-> Len(o) + 1, user_id |-> user_id,
       items_json |-> JsonDumps(cart_items), total_price |-> total_price]>>

\* INSERT INTO orders (user_id, items_json, total_price)
save_order(o, user_id, cart_items, total_price) ==
    Append(o, [id |-> Len(o) + 1, user_id |-> user_id,
               items_json |-> JsonDumps(cart_items), total_price |-> total_price])

\* the cart stored without the lines that no menu row matches
save_pending_cart_resolved(p, seqno, cart_items) ==
    [i \in DOMAIN p \cup {seqno + 1} |->
        IF i = seqno + 1
        THEN JsonDumps(SelectSeq(cart_items, LAMBDA item : \E r \in menu : r.id = item["id"]))
        ELSE p[i]]

\* id INTEGER PRIMARY KEY without AUTOINCREMENT: the new row gets the largest id
\* in the table plus one
save_pending_cart_rowid(p, seqno, cart_items) ==
    LET top == IF DOMAIN p = {} THEN 0 ELSE CHOOSE i \in DOMAIN p : \A j \in DOMAIN p : j <= i
    IN  [i \in DOMAIN p \cup {top + 1} |->
            IF i = top + 1 THEN JsonDumps(cart_items) ELSE p[i]]

\* INSERT INTO pending_orders (cart_json): the new row gets id seqno + 1
save_pending_cart(p, seqno, cart_items) ==
    [i \in DOMAIN p \cup {seqno + 1} |->
        IF i = seqno + 1 THEN JsonDumps(cart_items) ELSE p[i]]

\* SELECT cart_json FROM pending_orders WHERE id = ?; <<>> with found FALSE is None
fetch_pending_cart(p, order_id) ==
    IF order_id \in DOMAIN p
    THEN [found |-> TRUE, cart_items |-> JsonLoads(p[order_id])]
    ELSE [found |-> FALSE, cart_items |-> <<>>]

\* DELETE FROM pending_orders WHERE id >= ?
delete_pending_cart_from(p, order_id) == [i \in {j \in DOMAIN p : j < order_id} |-> p[i]]

\* DELETE FROM pending_orders WHERE id = ?
delete_pending_cart(p, order_id) == [i \in DOMAIN p \ {order_id} |-> p[i]]

\* SELECT id FROM menu WHERE name = ?
MenuHasName(m, name) == \E r \in m : r.name = name

\* DELETE FROM menu WHERE name = ?
delete_menu_rows(m, name) == {r \in m : r.name # name}

\* INSERT INTO menu (name, price, description, category, emoji): is_active DEFAULT 1
insert_menu_row(m, seqno, name, price, category) ==
    m \cup {MenuRow(seqno + 1, name, price, category)}

(***************************************************************************)
(* Handler coroutines: position and locals                                 *)
(***************************************************************************)
\* a REAL as it is printed with two places
Decimal(hundredths) == [units |-> hundredths \div 100, cents |-> hundredths % 100]

\* total_amount // 100: the integer division that loses the cents
Div100Floor(total_amount) == Decimal((total_amount \div 100) * 100)

\* payment_info.total_amount / 100.0
Div100(total_amount) == Decimal(total_amount)

\* a frame with every local unset
Idle ==
    [pc |-> "idle", payment_info |-> <<>>, order_id |-> 0, cart_items |-> <<>>,
     user_id |-> NoUser,
     total_amount |-> Decimal(0), currency |-> "", cart |-> <<>>, prices |-> <<>>,
     name |-> <<>>, price |-> <<>>, category |-> ""]

Frames == BagToSet(task)

\* message.answer(text); re names the handler that answers
Answer(re, text, arg) == <<[re |-> re, status |-> 0, text |-> text, arg |-> arg]>>

\* web.json_response(body, status=status)
JsonResponse(re, status, text, arg) ==
    <<[re |-> re, status |-> status, text |-> text, arg |-> arg]>>

\* what a step sent has been delivered before the next step is taken
Delivered == sent = <<>>

\* an event arrives and a new coroutine handles it
Arrives == Delivered /\ started < MaxTasks

\* the handler returns in its first step: it was never suspended
Return == task' = task /\ started' = started

\* the handler is suspended at its next await, with frame f
Suspend(f) == task' = task (+) SetToBag({f}) /\ started' = started + 1

\* the suspended handler t is at position pc and runs next
At(t, pc) == Delivered /\ t \in Frames /\ t.pc = pc

\* the handler t is suspended again, with frame f
Resume(t, f) == (task (-) SetToBag({t})) (+) SetToBag({f})

\* the handler t returns
Finish(t) == task (-) SetToBag({t})

(***************************************************************************)
(* Inputs                                                                  *)
(***************************************************************************)
lineFull == [id |-> 1, count |-> 2, price |-> 12000, name |-> "Classic Kebab"]

lineBare == [id |-> 6, count |-> 1]

lineNoCount == [id |-> 5, price |-> 5000, name |-> "Cola Zero"]

lineUnknown == [id |-> 99, count |-> 1, price |-> 100, name |-> "Ghost"]

lineZero == [id |-> 1, count |-> 0, price |-> 12000, name |-> "Classic Kebab"]

lineInactive == [id |-> 2, count |-> 1, price |-> 14000, name |-> "Cheese Bomb"]

CartsIn ==
    { <<>>, <<lineUnknown>>, <<lineZero, lineInactive>>, <<lineUnknown, lineFull>>,
      <<lineBare>>, <<lineNoCount>> }

\* the payment updates: invoice_payload, total_amount, currency, from_user
Update(payload, total_amount, currency, from_user) ==
    [successful_payment |->
        [invoice_payload |-> payload, total_amount |-> total_amount, currency |-> currency],
     from_user |-> from_user]

UpdatesIn ==
    { Update(Str(1), 24050, "BYN", 2), Update(Str(1), 24050, "BYN", NoUser),
      Update(<<" ", "2">>, 4000, "USD", 2), Update(Str(3), 4000, "USD", 2),
      Update(<<"a", "b", "c">>, 4000, "USD", 2), Update(<<"1", ".", "5">>, 4000, "USD", NoUser) }

(***************************************************************************)
(* web/routes.py: create_invoice                                           *)
(***************************************************************************)
\* item.get('count', 1)
CountOf(item) == IF "count" \in DOMAIN item THEN item["count"] ELSE 1

\* menu_map.get(item['id'])
MenuMapGet(menu_items, id) == {r \in menu_items : r.id = id}

\* the LabeledPrice of one cart line, or nothing when the line is dropped
PriceOf(menu_items, item) ==
    LET found == MenuMapGet(menu_items, item["id"])
        menu_item == CHOOSE r \in found : TRUE
        count == CountOf(item)
    IN  IF found # {} /\ count > 0
        THEN <<[label |-> [name |-> menu_item.name, x |-> IF count > 1 THEN count ELSE 0],
                amount |-> menu_item.price * count]>>
        ELSE <<>>

RECURSIVE Prices(_, _)
\* the loop over the cart that builds prices
Prices(menu_items, cart) ==
    IF cart = <<>> THEN <<>>
    ELSE PriceOf(menu_items, Head(cart)) \o Prices(menu_items, Tail(cart))

\* the request arrives; the cart is resolved against fetch_menu
CreateInvoice(cart) ==
    /\ Arrives
    /\ LET prices == Prices(fetch_menu(menu), cart)
       IN  IF cart = <<>>
           THEN /\ sent' = JsonResponse("create_invoice", 400, "Cart is empty", "")
                /\ Return
           ELSE IF prices = <<>>
           THEN /\ sent' = JsonResponse("create_invoice", 400, "Unable to generate invoice", "")
                /\ Return
           ELSE /\ sent' = <<>>
                /\ Suspend([Idle EXCEPT !.pc = "inv_save", !.cart = cart, !.prices = prices])
    /\ UNCHANGED <<db, config, issuer_calls>>

\* order_id = await db_service.save_pending_cart(db_path, cart)
InvoiceSave(t) ==
    /\ At(t, "inv_save")
    /\ pending_orders' = save_pending_cart(pending_orders, pending_seq, t.cart)
    /\ pending_seq' = pending_seq + 1
    /\ task' = Resume(t, [t EXCEPT !.pc = "inv_issue", !.order_id = pending_seq + 1])
    /\ sent' = <<>>
    /\ UNCHANGED <<menu, menu_seq, categories, orders, config, started, issuer_calls>>

\* bot.create_invoice_link(...) returns a link
InvoiceLink(t) ==
    /\ At(t, "inv_issue")
    /\ bot
    /\ issuer_calls' = issuer_calls \cup {[payload |-> Str(t.order_id), ok |-> TRUE]}
    /\ sent' = JsonResponse("create_invoice", 200, "invoice_link", Str(t.order_id))
    /\ task' = Finish(t)
    /\ UNCHANGED <<db, config, started>>

\* str(telegram_error): what the issuer answers, or the AttributeError of None
TelegramError ==
    IF bot THEN "Bad Request: CURRENCY_INVALID"
    ELSE "'NoneType' object has no attribute 'create_invoice_link'"

\* the failed call answered after taking the draft order back
InvoiceErrorCleanup(t) ==
    /\ At(t, "inv_issue")
    /\ issuer_calls' = IF bot
                       THEN issuer_calls \cup {[payload |-> Str(t.order_id), ok |-> FALSE]}
                       ELSE issuer_calls
    /\ sent' = JsonResponse("create_invoice", 500, "Telegram API Error", TelegramError)
    /\ task' = Finish(t)
    /\ pending_orders' = delete_pending_cart(pending_orders, t.order_id)
    /\ UNCHANGED <<menu, menu_seq, categories, pending_seq, orders, config, started>>

\* bot.create_invoice_link(...) raises; with bot None the call itself raises
InvoiceError(t) ==
    /\ At(t, "inv_issue")
    /\ issuer_calls' = IF bot
                       THEN issuer_calls \cup {[payload |-> Str(t.order_id), ok |-> FALSE]}
                       ELSE issuer_calls
    /\ sent' = JsonResponse("create_invoice", 500, "Telegram API Error", TelegramError)
    /\ task' = Finish(t)
    /\ UNCHANGED <<db, config, started>>

(***************************************************************************)
(* bot/handlers.py: process_successful_payment                             *)
(***************************************************************************)
\* Telegram lets a user pay only an invoice whose link it has returned: an update
\* that names a pending order carries the payload of that order's link
Payable(payload) ==
    IntParse(payload).ok /\ IntParse(payload).value \in DOMAIN pending_orders
        => [payload |-> payload, ok |-> TRUE] \in issuer_calls

\* the check of message.from_user left out
PaymentVerdictNoUserCheck(parsed, got, from_user) ==
    IF ~parsed.ok THEN "Error: Invalid order payload."
    ELSE IF got.cart_items = <<>> THEN "Error: Order not found. Please contact support."
    ELSE ""

\* which way the handler goes once the payload is parsed and the cart fetched
PaymentVerdict(parsed, got, from_user) ==
    IF ~parsed.ok THEN "Error: Invalid order payload."
    ELSE IF got.cart_items = <<>> THEN "Error: Order not found. Please contact support."
    ELSE IF from_user = NoUser THEN "Error: User information is not available."
    ELSE ""

\* the event arrives; payload parsed, pending cart fetched, user checked.  The
\* filter F.successful_payment keeps updates without payment information away.
ProcessSuccessfulPayment(message) ==
    /\ Arrives
    /\ bot
    /\ Payable(message.successful_payment.invoice_payload)
    /\ LET payment_info == message.successful_payment
           payload == payment_info.invoice_payload
           parsed == IntParse(payload)
           got == fetch_pending_cart(pending_orders, parsed.value)
           verdict == PaymentVerdict(parsed, got, message.from_user)
       IN  IF verdict # ""
           THEN /\ sent' = Answer("payment", verdict, "")
                /\ Return
           ELSE /\ sent' = <<>>
                /\ Suspend([Idle EXCEPT !.pc = "pay_save",
                                        !.payment_info = payment_info,
                                        !.order_id = parsed.value,
                                        !.cart_items = got.cart_items,
                                        !.user_id = message.from_user,
                                        !.total_amount = Div100(payment_info.total_amount),
                                        !.currency = payment_info.currency])
    /\ UNCHANGED <<db, config, issuer_calls>>

\* the two awaits in the other order: the pending order is deleted first and the
\* order saved afterwards
PaymentDeleteThenSave(t) ==
    \/ /\ At(t, "pay_save")
       /\ pending_orders' = delete_pending_cart(pending_orders, t.order_id)
       /\ task' = Resume(t, [t EXCEPT !.pc = "pay_save_late"])
       /\ sent' = <<>>
       /\ UNCHANGED <<menu, menu_seq, categories, pending_seq, orders,
                      config, started, issuer_calls>>
    \/ /\ At(t, "pay_save_late")
       /\ orders' = save_order(orders, t.user_id, t.cart_items, t.total_amount)
       /\ task' = Resume(t, [t EXCEPT !.pc = "pay_delete"])
       /\ sent' = <<>>
       /\ UNCHANGED <<menu, menu_seq, categories, pending_orders, pending_seq,
                      config, started, issuer_calls>>

\* await db_service.save_order(...)
PaymentSave(t) ==
    /\ At(t, "pay_save")
    /\ orders' = save_order(orders, t.user_id, t.cart_items, t.total_amount)
    /\ task' = Resume(t, [t EXCEPT !.pc = "pay_delete"])
    /\ sent' = <<>>
    /\ UNCHANGED <<menu, menu_seq, categories, pending_orders, pending_seq,
                   config, started, issuer_calls>>

\* await db_service.delete_pending_cart(db_path, order_id)
PaymentDelete(t) ==
    /\ At(t, "pay_delete")
    /\ pending_orders' = delete_pending_cart(pending_orders, t.order_id)
    /\ task' = Resume(t, [t EXCEPT !.pc = "pay_receipt"])
    /\ sent' = <<>>
    /\ UNCHANGED <<menu, menu_seq, categories, pending_seq, orders,
                   config, started, issuer_calls>>

\* item['price'], item['count'], item['name'] raise KeyError on a missing key
ReceiptRaises(cart_items) ==
    \E i \in DOMAIN cart_items : ~({"price", "count", "name"} \subseteq DOMAIN cart_items[i])

\* 'Br' if currency == 'BYN' else currency
CurrencySymbol(currency) == IF currency = "BYN" THEN "Br" ELSE currency

ReceiptText(cart_items, total_amount, currency) ==
    [lines |-> [i \in DOMAIN cart_items |->
                   [name |-> cart_items[i]["name"], count |-> cart_items[i]["count"],
                    line_total |-> Decimal(cart_items[i]["price"] * cart_items[i]["count"]),
                    symbol |-> CurrencySymbol(currency)]],
     total |-> total_amount, symbol |-> CurrencySymbol(currency)]

\* the receipt is formatted and sent; a KeyError ends the handler without a reply
PaymentReceipt(t) ==
    /\ At(t, "pay_receipt")
    /\ sent' = IF ReceiptRaises(t.cart_items) THEN <<>>
               ELSE Answer("payment", "Payment Successful!",
                           ReceiptText(t.cart_items, t.total_amount,
                                       t.currency))
    /\ task' = Finish(t)
    /\ UNCHANGED <<db, config, started, issuer_calls>>

(***************************************************************************)
(* database/service.py: add_menu_item, delete_menu_item, fetch_categories  *)
(***************************************************************************)
\* not name or not name.strip()
IsBlank(name) == name = <<>> \/ Strip(name) = <<>>

\* the validation of add_menu_item and its SELECT: the error raised, "" for none.
\* price is the text of the number: the handler passes float(parts[2]), and
\* float(float(x)) = float(x).
AddCheck(m, name, price) ==
    LET p == ParseFloat(price)
    IN  IF IsBlank(name) THEN "invalid_name"
        ELSE IF ~p.ok THEN "invalid_price"
        ELSE IF ~p.nan /\ p.neg /\ p.val > 0 THEN "invalid_price"
        ELSE IF MenuHasName(m, name) THEN "exists"
        ELSE ""

\* the INSERT of add_menu_item: SQLite binds NaN as NULL, which price REAL NOT NULL
\* rejects with an IntegrityError
AddInsert(m, seqno, name, price, category) ==
    LET p == ParseFloat(price)
    IN  IF p.nan
        THEN [error |-> "IntegrityError", menu |-> m, menu_seq |-> seqno]
        ELSE [error |-> "", menu |-> insert_menu_row(m, seqno, name, p.val, category),
              menu_seq |-> seqno + 1]

\* add_menu_item run without interruption
add_menu_item(m, seqno, name, price, category) ==
    IF AddCheck(m, name, price) # ""
    THEN [error |-> AddCheck(m, name, price), menu |-> m, menu_seq |-> seqno]
    ELSE AddInsert(m, seqno, name, price, category)

\* the binary collation of the category names that occur (ORDER BY name)
NameOrder == <<"", "Cheese", "Classic", "Drinks", "Snacks", "Spicy", "Vegan">>

RECURSIVE SortedNames(_, _)
SortedNames(names, order) ==
    IF order = <<>> THEN <<>>
    ELSE (IF Head(order) \in names THEN <<Head(order)>> ELSE <<>>)
         \o SortedNames(names, Tail(order))

RECURSIVE DistinctCategories(_, _)
\* SELECT DISTINCT category FROM menu WHERE is_active = 1, rows taken in id order
DistinctCategories(rows, seen) ==
    IF rows = {} THEN <<>>
    ELSE LET r == CHOOSE x \in rows : \A y \in rows : x.id <= y.id
         IN  IF r.category \in seen THEN DistinctCategories(rows \ {r}, seen)
             ELSE <<r.category>> \o DistinctCategories(rows \ {r}, seen \cup {r.category})

\* [x for x in xs if x]: the empty string (and NULL, modelled as "") is dropped
Truthy(xs) == SelectSeq(xs, LAMBDA x : x # "")

DefaultCategories == <<"Classic", "Cheese", "Spicy", "Vegan", "Drinks">>

\* the categories table never consulted: the default set as soon as no active item
\* has a category
fetch_categories_two_tiers(m, c) ==
    LET first == Truthy(DistinctCategories(fetch_menu(m), {}))
    IN  IF first # <<>> THEN first ELSE DefaultCategories

\* fetch_categories of a database with menu m and categories table c
fetch_categories(m, c) ==
    LET first == Truthy(DistinctCategories(fetch_menu(m), {}))
        second == Truthy(SortedNames(c, NameOrder))
    IN  IF first # <<>> THEN first
        ELSE IF second # <<>> THEN second
        ELSE DefaultCategories

(***************************************************************************)
(* bot/handlers.py: cmd_add_item, cmd_delete_item                          *)
(***************************************************************************)
Test == <<"T", "e", "s", "t">>

NoText == [has_text |-> FALSE, parts |-> <<>>]

Text(parts) == [has_text |-> TRUE, parts |-> parts]

\* message.text.split() of /add <name> <price> <category> <emoji> <description>
AddTextsIn ==
    { NoText,
      Text(<<"/add", Test>>),
      Text(<<"/add", Test, <<"5">>, "Snacks", "e", "d">>),
      Text(<<"/add", Test, <<"-", "5">>, "Snacks", "e", "d">>),
      Text(<<"/add", Test, <<"a", "b", "c">>, "Snacks", "e", "d">>),
      Text(<<"/add", Test, <<"n", "a", "n">>, "Snacks", "e", "d">>),
      Text(<<"/add", Ayran, <<"4", ".", "5">>, "Drinks", "e", "d">>) }

\* message.text.split(maxsplit=1) of /del <dish_name>
DelTextsIn == { NoText, Text(<<"/del">>), Text(<<"/del", Ayran>>), Text(<<"/del", Test>>) }

SendersIn == {NoUser, 1, 2}

AdminIdsIn == { {}, {1} }

\* an empty admin list taken to mean that everybody is an administrator
GateOpenWhenEmpty(from_user, text, min_parts) ==
    IF from_user = NoUser THEN "Error: User information is not available."
    ELSE IF admin_ids # {} /\ from_user \notin admin_ids
         THEN "You do not have administrator permissions."
    ELSE IF ~text.has_text THEN "Error: Message does not contain text."
    ELSE IF Len(text.parts) < min_parts THEN "Usage"
    ELSE ""

\* the checks every admin command starts with: the reply that ends it, "" for none
Gate(from_user, text, min_parts) ==
    IF from_user = NoUser THEN "Error: User information is not available."
    ELSE IF from_user \notin admin_ids THEN "You do not have administrator permissions."
    ELSE IF ~text.has_text THEN "Error: Message does not contain text."
    ELSE IF Len(text.parts) < min_parts THEN "Usage"
    ELSE ""

AddErrorText(reason) ==
    CASE reason = "exists" -> "Menu item already exists."
      [] reason = "invalid_price" -> "Error: Invalid price."
      [] reason = "invalid_name" -> "Error: Invalid menu item name."
      [] OTHER -> "Cannot add menu item: invalid data provided."

\* the /add message arrives: gate, parsing, validation and the SELECT
CmdAddItem(from_user, text) ==
    /\ Arrives
    /\ bot
    /\ LET gate == Gate(from_user, text, 6)
           name == text.parts[2]
           price == text.parts[3]
           reason == AddCheck(menu, name, price)
       IN  IF gate # ""
           THEN /\ sent' = Answer("add", gate, "")
                /\ Return
           ELSE IF ~ParseFloat(price).ok
           THEN /\ sent' = Answer("add", "Error: Price must be a number.", "")
                /\ Return
           ELSE IF reason # ""
           THEN /\ sent' = Answer("add", AddErrorText(reason), name)
                /\ Return
           ELSE /\ sent' = <<>>
                /\ Suspend([Idle EXCEPT !.pc = "add_insert", !.name = name,
                                            !.price = price, !.category = text.parts[4]])
    /\ UNCHANGED <<db, config, issuer_calls>>

\* the INSERT and commit of add_menu_item, then the reply
CmdAddInsert(t) ==
    /\ At(t, "add_insert")
    /\ LET r == AddInsert(menu, menu_seq, t.name, t.price, t.category)
       IN  /\ menu' = r.menu
           /\ menu_seq' = r.menu_seq
           /\ sent' = IF r.error = ""
                      THEN Answer("add", "Menu item added successfully.", t.name)
                      ELSE Answer("add", "An error occurred while adding menu item. Check server logs.", "")
    /\ task' = Finish(t)
    /\ UNCHANGED <<categories, pending_orders, pending_seq, orders, config, started, issuer_calls>>

\* the /del message arrives: gate and the SELECT of delete_menu_item
CmdDeleteItem(from_user, text) ==
    /\ Arrives
    /\ bot
    /\ LET gate == Gate(from_user, text, 2)
           item_name == text.parts[2]
       IN  IF gate # ""
           THEN /\ sent' = Answer("del", gate, "")
                /\ Return
           ELSE IF ~MenuHasName(menu, item_name)
           THEN /\ sent' = Answer("del", "Menu item not found.", item_name)
                /\ Return
           ELSE /\ sent' = <<>>
                /\ Suspend([Idle EXCEPT !.pc = "del_delete", !.name = item_name])
    /\ UNCHANGED <<db, config, issuer_calls>>

\* the DELETE and commit of delete_menu_item, then the reply
CmdDeleteRows(t) ==
    /\ At(t, "del_delete")
    /\ menu' = delete_menu_rows(menu, t.name)
    /\ sent' = Answer("del", "Menu item deleted successfully.", t.name)
    /\ task' = Finish(t)
    /\ UNCHANGED <<menu_seq, categories, pending_orders, pending_seq, orders,
                   config, started, issuer_calls>>

(***************************************************************************)
(* The handlers that only read                                             *)
(***************************************************************************)
\* GET /api/menu
ApiGetMenu ==
    /\ Arrives
    /\ sent' = JsonResponse("menu", 200, "menu", fetch_menu(menu))
    /\ Return
    /\ UNCHANGED <<db, config, issuer_calls>>

\* GET /api/categories
ApiGetCategories ==
    /\ Arrives
    /\ sent' = JsonResponse("categories", 200, "categories", fetch_categories(menu, categories))
    /\ Return
    /\ UNCHANGED <<db, config, issuer_calls>>

\* /start and the pre-checkout query: answered without touching the stores
CmdStart ==
    /\ Arrives
    /\ bot
    /\ sent' = Answer("start", "Welcome!", "")
    /\ Return
    /\ UNCHANGED <<db, config, issuer_calls>>

ProcessPreCheckoutQuery ==
    /\ Arrives
    /\ bot
    /\ sent' = Answer("pre_checkout", "answer_pre_checkout_query", "ok")
    /\ Return
    /\ UNCHANGED <<db, config, issuer_calls>>

(***************************************************************************)
(* main.py: the process dies and is started again                          *)
(***************************************************************************)
\* every running coroutine is lost; on_startup runs init_db on the database file
Restart ==
    /\ Delivered
    /\ task # EmptyBag
    /\ task' = EmptyBag
    /\ menu' = SeedMenu(menu, menu_seq)
    /\ menu_seq' = SeedMenuSeq(menu, menu_seq)
    /\ categories' = SeedCategories(categories)
    /\ sent' = <<>>
    /\ UNCHANGED <<pending_orders, pending_seq, orders, config, started, issuer_calls>>

\* the reply or response of the last step reaches Telegram or the HTTP client
Deliver ==
    /\ sent # <<>>
    /\ sent' = <<>>
    /\ UNCHANGED <<db, config, task, started, issuer_calls>>

(***************************************************************************)
(* The program                                                             *)
(***************************************************************************)
\* an item an operator has switched off in the database file (is_active = 0)
Deactivate(m, names) == {[r EXCEPT !.is_active = r.name \notin names] : r \in m}

InactiveIn == { {}, {CheeseBomb} }

Init ==
    /\ \E off \in InactiveIn : menu = Deactivate(SeedMenu({}, 0), off)
    /\ menu_seq = SeedMenuSeq({}, 0)
    /\ categories = SeedCategories({})
    /\ pending_orders = <<>>
    /\ pending_seq = 0
    /\ orders = <<>>
    /\ admin_ids \in AdminIdsIn
    /\ bot \in BOOLEAN
    /\ task = EmptyBag
    /\ started = 0
    /\ issuer_calls = {}
    /\ sent = <<>>

Next ==
    \/ \E cart \in CartsIn : CreateInvoice(cart)
    \/ \E t \in Frames : InvoiceSave(t)
    \/ \E t \in Frames : InvoiceLink(t)
    \/ \E t \in Frames : InvoiceError(t)
    \/ \E message \in UpdatesIn : ProcessSuccessfulPayment(message)
    \/ \E t \in Frames : PaymentSave(t)
    \/ \E t \in Frames : PaymentDelete(t)
    \/ \E t \in Frames : PaymentReceipt(t)
    \/ \E from_user \in SendersIn, text \in AddTextsIn : CmdAddItem(from_user, text)
    \/ \E t \in Frames : CmdAddInsert(t)
    \/ \E from_user \in SendersIn, text \in DelTextsIn : CmdDeleteItem(from_user, text)
    \/ \E t \in Frames : CmdDeleteRows(t)
    \/ ApiGetMenu
    \/ ApiGetCategories
    \/ CmdStart
    \/ ProcessPreCheckoutQuery
    \/ Restart
    \/ Deliver

Spec == Init /\ [][Next]_vars

(***************************************************************************)
(* fetch_categories on its own: any menu and any categories table          *)
(***************************************************************************)
MaxCatRows == 2

CategoriesIn == {"", "Drinks", "Vegan"}

CategoryNamesIn == {"", "Spicy", "Cheese"}

\* the menus of up to MaxCatRows rows, each with any category, active or not
MenusIn ==
    UNION { { { [MenuRow(i, Test, 500, cat[i]) EXCEPT !.is_active = act[i]] : i \in 1..n } :
                cat \in [1..n -> CategoriesIn], act \in [1..n -> BOOLEAN] } :
            n \in 0..MaxCatRows }

InitCat ==
    /\ menu \in MenusIn
    /\ menu_seq = MaxCatRows
    /\ categories \in SUBSET CategoryNamesIn
    /\ pending_orders = <<>>
    /\ pending_seq = 0
    /\ orders = <<>>
    /\ admin_ids = {}
    /\ bot = FALSE
    /\ task = EmptyBag
    /\ started = 0
    /\ issuer_calls = {}
    /\ sent = <<>>

NextCat == ApiGetCategories \/ Deliver

SpecCat == InitCat /\ [][NextCat]_vars

(***************************************************************************)
(* Properties                                                              *)
(***************************************************************************)
\* the frame f was added to the suspended handlers by this step
Added(f) == CopiesIn(f, task') = CopiesIn(f, task) + 1

\* the value of a REAL with two places, in hundredths
Hundredths(d) == d.units * 100 + d.cents

\* this step appended exactly the row o to the Order Store
Appended(o) == Len(orders') = Len(orders) + 1 /\ orders' = Append(orders, o)

LastOrder == orders'[Len(orders')]

\* the confirmation with this update is not aborted: integer payload, existing
\* pending order, user present
Confirmable(message) ==
    /\ IntParse(message.successful_payment.invoice_payload).ok
    /\ IntParse(message.successful_payment.invoice_payload).value \in DOMAIN pending_orders
    /\ message.from_user # NoUser

C1_Arrival ==
    \A message \in UpdatesIn :
        ProcessSuccessfulPayment(message) /\ Confirmable(message) =>
            LET id == IntParse(message.successful_payment.invoice_payload).value
            IN  /\ orders' = orders /\ pending_orders' = pending_orders /\ sent' = <<>>
                /\ \E f \in BagToSet(task') :
                      /\ Added(f) /\ f.pc = "pay_save" /\ f.order_id = id
                      /\ f.cart_items = JsonLoads(pending_orders[id])
                      /\ f.user_id = message.from_user
                      /\ f.payment_info = message.successful_payment

C1_Steps ==
    \A t \in Frames :
        /\ PaymentSave(t) =>
              /\ Appended(LastOrder)
              /\ LastOrder.user_id = t.user_id
              /\ JsonLoads(LastOrder.items_json) = t.cart_items
              /\ Hundredths(LastOrder.total_price) = t.payment_info.total_amount
              /\ Added([t EXCEPT !.pc = "pay_delete"])
        /\ PaymentDelete(t) =>
              /\ orders' = orders
              /\ ~fetch_pending_cart(pending_orders', t.order_id).found
              /\ Added([t EXCEPT !.pc = "pay_receipt"])
        /\ PaymentReceipt(t) => orders' = orders /\ pending_orders' = pending_orders

C1_Absent ==
    \A t \in Frames : t.pc = "pay_receipt" => t.order_id \notin DOMAIN pending_orders

\* C1: a payment confirmation whose payload is the id of an existing pending order,
\* with the user present, appends exactly one Order (in its save step and in no
\* other) whose items are that pending order's stored items and whose total_price is
\* total_amount / 100; once its delete step is done, fetch on the id finds nothing.
C1_ConfirmPaymentCreatesOneOrder == [](C1_Absent) /\ [][C1_Arrival /\ C1_Steps]_vars

\* a confirmation has saved its Order and deleted the pending order it came from
C1_Witness ==
    \E t \in Frames :
        /\ t.pc = "pay_receipt"
        /\ t.order_id \notin DOMAIN pending_orders
        /\ \E i \in DOMAIN orders :
              /\ JsonLoads(orders[i].items_json) = t.cart_items
              /\ Hundredths(orders[i].total_price) = 24050

\* C2: at most one Order is ever created from a pending-order id, whatever the
\* sequence or interleaving of the confirmations that carry it; so there are never
\* more Orders than pending orders were created.
C2_AtMostOneOrderPerPendingOrder == Len(orders) <= pending_seq

\* some line of the cart names an active menu item and has a count above zero
Resolvable(cart, m) ==
    \E i \in DOMAIN cart :
        /\ \E r \in m : r.is_active /\ r.id = cart[i]["id"]
        /\ ("count" \in DOMAIN cart[i] => cart[i]["count"] > 0)

C3_Accepted ==
    \A cart \in CartsIn :
        CreateInvoice(cart) /\ Resolvable(cart, menu) =>
            /\ pending_orders' = pending_orders
            /\ sent' = <<>>
            /\ \E f \in BagToSet(task') : Added(f) /\ f.pc = "inv_save" /\ f.cart = cart

C3_Saved ==
    \A t \in Frames :
        InvoiceSave(t) =>
            \E id \in DOMAIN pending_orders' :
                /\ id \notin DOMAIN pending_orders
                /\ DOMAIN pending_orders' = DOMAIN pending_orders \cup {id}
                /\ \A i \in DOMAIN pending_orders : pending_orders'[i] = pending_orders[i]
                /\ JsonLoads(pending_orders'[id]) = t.cart
                /\ Added([t EXCEPT !.pc = "inv_issue", !.order_id = id])

IsLink(msgs, order_id) ==
    msgs = <<[re |-> "create_invoice", status |-> 200, text |-> "invoice_link",
              arg |-> Str(order_id)]>>

C3_Answered ==
    \A t \in Frames :
        /\ InvoiceLink(t) => IsLink(sent', t.order_id) /\ pending_orders' = pending_orders
        /\ InvoiceError(t) =>
              /\ Len(sent') = 1 /\ sent'[1].status = 500
              /\ pending_orders' = pending_orders

C3_AlwaysLink ==
    \A t \in Frames :
        InvoiceLink(t) \/ InvoiceError(t) =>
            IsLink(sent', t.order_id) /\ pending_orders' = pending_orders

\* C3 (as stated): for every cart with a line that resolves against an active menu
\* item with count > 0, request invoice returns a link and creates exactly one new
\* Pending Order whose stored items are the submitted cart verbatim.
C3_RequestInvoiceReturnsLink == [][C3_Accepted /\ C3_Saved /\ C3_AlwaysLink]_vars

\* C3 (amended): for every such cart request invoice creates exactly one new Pending
\* Order whose stored items are the submitted cart verbatim, dropped lines included;
\* it returns the link when the Invoice Issuer call succeeds and answers with status
\* 500 when that call fails, the Pending Order staying in either case.
C3_RequestInvoiceStoresCartVerbatim == [][C3_Accepted /\ C3_Saved /\ C3_Answered]_vars

\* a link was returned for a stored cart that still holds the line that was dropped
C3_Witness ==
    \E id \in DOMAIN pending_orders :
        /\ JsonLoads(pending_orders[id]) = <<lineUnknown, lineFull>>
        /\ IsLink(sent, id)

\* C4: a cart whose every line names an unknown or inactive menu item or has
\* count <= 0, and the empty cart, is answered with status 400 in the first step; no
\* Pending Order is created and the handler ends there, so it never calls the issuer.
C4_UnresolvableCartRejected ==
    [][ \A cart \in CartsIn :
            CreateInvoice(cart) /\ ~Resolvable(cart, menu) =>
                /\ Len(sent') = 1 /\ sent'[1].re = "create_invoice" /\ sent'[1].status = 400
                /\ sent'[1].text = IF cart = <<>> THEN "Cart is empty"
                                   ELSE "Unable to generate invoice"
                /\ UNCHANGED <<pending_orders, pending_seq, issuer_calls, task>> ]_vars

\* a cart was rejected while the menu holds an inactive item
C4_Witness ==
    /\ Len(sent) = 1 /\ sent[1].re = "create_invoice" /\ sent[1].status = 400
    /\ sent[1].text = "Unable to generate invoice"
    /\ \E r \in menu : ~r.is_active
    /\ pending_orders = <<>> /\ issuer_calls = {}

\* the error messages an aborted confirmation may report, by the reason that holds
AbortTexts(message) ==
    LET parsed == IntParse(message.successful_payment.invoice_payload)
    IN  (IF ~parsed.ok THEN {"Error: Invalid order payload."} ELSE {})
        \cup (IF parsed.ok /\ parsed.value \notin DOMAIN pending_orders
              THEN {"Error: Order not found. Please contact support."} ELSE {})
        \cup (IF message.from_user = NoUser
              THEN {"Error: User information is not available."} ELSE {})

\* C5: a confirmation that aborts (payload no integer, no pending order with that id,
\* or no user) leaves the Order Store and the Pending Order Store unchanged, sends
\* exactly one error message, the one of a reason that holds, and ends there.
C5_AbortedConfirmationChangesNothing ==
    [][ \A message \in UpdatesIn :
            ProcessSuccessfulPayment(message) /\ ~Confirmable(message) =>
                /\ UNCHANGED <<orders, pending_orders, pending_seq, task>>
                /\ Len(sent') = 1 /\ sent'[1].re = "payment"
                /\ sent'[1].text \in AbortTexts(message) ]_vars

\* a confirmation for an existing pending order was aborted for its missing user
C5_Witness ==
    /\ Len(sent) = 1 /\ sent[1].re = "payment"
    /\ sent[1].text = "Error: User information is not available."
    /\ 1 \in DOMAIN pending_orders
    /\ orders = <<>>

Rejected(re) ==
    /\ sent' = <<[re |-> re, status |-> 0,
                  text |-> "You do not have administrator permissions.", arg |-> ""]>>
    /\ UNCHANGED <<menu, menu_seq, task>>

\* C6: /add and /del from a caller whose id is not in admin_ids (the empty set
\* included) get the fixed rejection and leave the Menu Store unchanged, whatever
\* the text of the command.
C6_NonAdminRejected ==
    [][ \A from_user \in SendersIn \ {NoUser} :
            from_user \notin admin_ids =>
                /\ \A text \in AddTextsIn : CmdAddItem(from_user, text) => Rejected("add")
                /\ \A text \in DelTextsIn : CmdDeleteItem(from_user, text) => Rejected("del") ]_vars

\* with no administrator configured, a command was rejected
C6_Witness ==
    /\ admin_ids = {}
    /\ Len(sent) = 1 /\ sent[1].re \in {"add", "del"}
    /\ sent[1].text = "You do not have administrator permissions."

\* the price text parses to a number that is not negative
PriceAccepted(price) ==
    ParseFloat(price).ok /\ ~(ParseFloat(price).neg /\ ParseFloat(price).val > 0)

\* this step inserted exactly one row, active, with this name
InsertedOne(name) ==
    \E r \in menu' :
        /\ r \notin menu /\ menu' = menu \cup {r}
        /\ r.name = name /\ r.is_active
        /\ \A q \in menu : q.id # r.id

C7_Checked ==
    \A from_user \in SendersIn, text \in AddTextsIn :
        CmdAddItem(from_user, text) /\ Gate(from_user, text, 6) = "" =>
            LET name == text.parts[2]
                price == text.parts[3]
            IN  IF IsBlank(name) \/ ~PriceAccepted(price) \/ MenuHasName(menu, name)
                THEN /\ UNCHANGED <<menu, menu_seq, task>>
                     /\ Len(sent') = 1
                     /\ sent'[1].text \in {"Error: Invalid menu item name.", "Error: Invalid price.",
                                           "Error: Price must be a number.",
                                           "Menu item already exists."}
                ELSE /\ menu' = menu
                     /\ \E f \in BagToSet(task') :
                           Added(f) /\ f.pc = "add_insert" /\ f.name = name /\ f.price = price

C7_Inserted == \A t \in Frames : CmdAddInsert(t) => InsertedOne(t.name)

\* C7: menu add fails and inserts no row when the name is blank, the price does not
\* parse or is negative, or a row with that name exists; otherwise it inserts exactly
\* one new row with is_active true.
C7_AddInsertsOneRowOrFails == [][C7_Checked /\ C7_Inserted]_vars

\* C8: no two rows of the Menu Store have the same name, after any sequence or
\* interleaving of add and remove operations on the seeded menu.
C8_MenuNamesUnique == \A r1, r2 \in menu : r1.name = r2.name => r1.id = r2.id

NoDuplicates(xs) == \A i, j \in DOMAIN xs : xs[i] = xs[j] => i = j

\* the three tiers, each as the set of names it offers
TierItems == {r.category : r \in {x \in menu : x.is_active}} \ {""}

TierTable == categories \ {""}

TierDefault == <<"Classic", "Cheese", "Spicy", "Vegan", "Drinks">>

\* C9: the answer of listCategories is the distinct non-empty categories of the
\* active menu items when there is one; otherwise the non-empty names of the
\* categories table when there is one; otherwise the hardcoded default list.
C9_ThreeTierFallback ==
    \A i \in DOMAIN sent :
        sent[i].re = "categories" =>
            LET result == sent[i].arg
            IN  IF TierItems # {} THEN Range(result) = TierItems /\ NoDuplicates(result)
                ELSE IF TierTable # {} THEN Range(result) = TierTable /\ NoDuplicates(result)
                ELSE result = TierDefault

\* the categories table answered, because no active item has a category while the
\* menu is not empty
C9_Witness ==
    /\ Len(sent) = 1 /\ sent[1].re = "categories"
    /\ menu # {} /\ TierItems = {} /\ TierTable # {}
    /\ Range(sent[1].arg) = TierTable

C10_Algebra ==
    \A id \in 0..(pending_seq + 1) :
        LET once == delete_pending_cart(pending_orders, id)
        IN  /\ delete_pending_cart(once, id) = once
            /\ id \notin DOMAIN pending_orders => once = pending_orders

C10_SecondDelete ==
    \A t \in Frames :
        PaymentDelete(t) /\ t.order_id \notin DOMAIN pending_orders =>
            /\ UNCHANGED db
            /\ Added([t EXCEPT !.pc = "pay_receipt"])

\* C10: delete on the Pending Order Store is idempotent: deleting an id that is
\* absent changes no store and raises nothing (the handler goes on to its receipt),
\* and deleting twice leaves the store as deleting once does.
C10_DeleteIdempotent == [](C10_Algebra) /\ [][C10_SecondDelete]_vars

\* two confirmations of one pending order have both run their delete
C10_Witness ==
    \E t \in Frames :
        /\ t.pc = "pay_receipt" /\ CopiesIn(t, task) = 2
        /\ t.order_id \notin DOMAIN pending_orders

\* the ids save_pending_cart has returned so far, as far as the state remembers
\* them: the rows still stored, the order_id of every handler past its save or
\* fetch, and the payload of every issuer call
ReturnedIds ==
    DOMAIN pending_orders
        \cup {t.order_id : t \in {f \in Frames : f.pc \in {"inv_issue", "pay_save", "pay_delete", "pay_receipt"}}}
        \cup {IntParse(c.payload).value : c \in issuer_calls}

\* the ids this step created
CreatedIds == DOMAIN pending_orders' \ DOMAIN pending_orders

C11_Fresh == \A n \in CreatedIds : \A m \in ReturnedIds : n > m

C11_Create ==
    \A t \in Frames :
        InvoiceSave(t) =>
            \E n \in CreatedIds :
                /\ CreatedIds = {n}
                /\ Added([t EXCEPT !.pc = "inv_issue", !.order_id = n])

\* C11: every id a create on the Pending Order Store returns is strictly greater
\* than every id returned earlier, whether or not the earlier pending orders,
\* the one with the largest id included, have been deleted since.
C11_PendingIdsMonotonic == [][C11_Fresh /\ C11_Create]_vars

\* pending order 1 was paid and deleted, and the next create returned 2
C11_Witness ==
    /\ [payload |-> Str(1), ok |-> TRUE] \in issuer_calls
    /\ Len(orders) >= 1
    /\ DOMAIN pending_orders = {2}
    /\ \E t \in Frames : t.pc = "inv_issue" /\ t.order_id = 2

\* the pending orders that have been deleted: given an id once, stored no more
DeletedIds == (1..pending_seq) \ DOMAIN pending_orders

\* there are at least as many orders as pending orders deleted
C12_NoneLost == Cardinality(DeletedIds) <= Len(orders)

\* the step that deletes a pending order finds its order saved: the cart of the
\* pending order, the confirming user and the amount paid
C12_SavedFirst ==
    \A t \in Frames :
        PaymentDelete(t) /\ t.order_id \in DOMAIN pending_orders =>
            \E i \in DOMAIN orders :
                /\ orders[i].items_json = pending_orders[t.order_id]
                /\ orders[i].user_id = t.user_id
                /\ orders[i].total_price = t.total_amount
                /\ orders'[i] = orders[i]

\* a step removes a pending order only as the delete of a confirmation
C12_OnlyConfirmationDeletes ==
    DOMAIN pending_orders \ DOMAIN pending_orders' # {} => \E t \in Frames : PaymentDelete(t)

\* C12: confirm payment saves the Order before it deletes the pending order: in
\* every reachable state, those reached by a crash between the two steps
\* included, every pending order a confirmation has deleted has its Order in
\* the Order Store.
C12_OrderSavedBeforePendingDeleted ==
    [](C12_NoneLost) /\ [][C12_SavedFirst /\ C12_OnlyConfirmationDeletes]_vars

\* pending order 1 is deleted and two orders were saved for it before: by a
\* confirmation that crashed after its save and the one that followed, or by
\* two confirmations side by side; the one that deleted is at its receipt
C12_Witness ==
    /\ pending_seq = 1 /\ DeletedIds = {1}
    /\ Len(orders) = 2
    /\ \E t \in Frames : t.pc = "pay_receipt" /\ CopiesIn(t, task) = 1 /\ task = SetToBag({t})

\* every stored order is kept as it is, in its place
C13_OrdersKept ==
    /\ Len(orders') >= Len(orders)
    /\ \A i \in DOMAIN orders : orders'[i] = orders[i]

\* a step that changes the Order Store is the save of a confirmation, and it
\* appends one order
C13_OnlyConfirmationWrites ==
    orders' # orders =>
        /\ \E t \in Frames : PaymentSave(t)
        /\ Len(orders') = Len(orders) + 1

\* the other operations, each by name, leave the Order Store as it is
C13_OthersLeaveOrders ==
    /\ \A cart \in CartsIn : CreateInvoice(cart) => UNCHANGED orders
    /\ \A t \in Frames :
          InvoiceSave(t) \/ InvoiceLink(t) \/ InvoiceError(t) \/ CmdAddInsert(t)
              \/ CmdDeleteRows(t) \/ PaymentDelete(t) \/ PaymentReceipt(t) => UNCHANGED orders
    /\ \A from_user \in SendersIn :
          /\ \A text \in AddTextsIn : CmdAddItem(from_user, text) => UNCHANGED orders
          /\ \A text \in DelTextsIn : CmdDeleteItem(from_user, text) => UNCHANGED orders
    /\ ApiGetMenu \/ ApiGetCategories \/ CmdStart \/ ProcessPreCheckoutQuery \/ Restart
          => UNCHANGED orders
    /\ \A message \in UpdatesIn : ProcessSuccessfulPayment(message) => UNCHANGED orders

\* C13: the Order Store is an append-only ledger written only by confirm payment:
\* request invoice, the menu add and remove commands, the read endpoints and
\* every aborted confirmation leave it unchanged, and no operation modifies or
\* removes an Order that is stored.
C13_OrderStoreAppendOnly ==
    [][C13_OrdersKept /\ C13_OnlyConfirmationWrites /\ C13_OthersLeaveOrders]_vars

\* a second order was appended behind the first, which is still what it was
C13_Witness ==
    /\ Len(orders) = 2
    /\ orders[1].id = 1 /\ orders[2].id = 2
    /\ orders[1].items_json = JsonDumps(<<lineUnknown, lineFull>>)

\* the receipt of handler t: one line per stored cart entry, then the total paid
C14_Receipt(t) ==
    /\ Len(sent') = 1
    /\ sent'[1].re = "payment" /\ sent'[1].text = "Payment Successful!"
    /\ DOMAIN sent'[1].arg.lines = DOMAIN t.cart_items
    /\ sent'[1].arg.total = t.total_amount

\* C14: a confirmation of a pending order that request invoice accepted, whose
\* entries carry an id and optionally count, price and name, ends with a receipt
\* of one line per stored cart entry and the total line; once the Order is saved
\* it never ends without a reply.
C14_ReceiptAlwaysReturned == [][\A t \in Frames : PaymentReceipt(t) => C14_Receipt(t)]_vars

\* the failed call is answered with status 500 and the failure message, without a
\* link, and the pending order saved just before, whose id was the payload, stays
C15_Failure ==
    \A t \in Frames :
        InvoiceError(t) =>
            /\ sent' = <<[re |-> "create_invoice", status |-> 500,
                          text |-> "Telegram API Error", arg |-> TelegramError]>>
            /\ ~IsLink(sent', t.order_id)
            /\ pending_orders' = pending_orders
            /\ t.order_id \in DOMAIN pending_orders
            /\ JsonLoads(pending_orders[t.order_id]) = t.cart
            /\ bot => [payload |-> Str(t.order_id), ok |-> FALSE] \in issuer_calls'

\* without a bot no link is ever returned
C15_NoBotNoLink == \A t \in Frames : InvoiceLink(t) => bot

\* a step removes a pending order only as the delete of a confirmation for its id
\* whose order is saved
C15_RemovedByConfirmation ==
    \A id \in DOMAIN pending_orders \ DOMAIN pending_orders' :
        \E t \in Frames :
            /\ PaymentDelete(t) /\ t.order_id = id
            /\ \E i \in DOMAIN orders : orders[i].items_json = pending_orders[id]

\* the pending order of a failed call is stored for as long as no link exists for it
C15_FailedStay ==
    /\ \A c \in issuer_calls :
          ~c.ok /\ [payload |-> c.payload, ok |-> TRUE] \notin issuer_calls
              => IntParse(c.payload).value \in DOMAIN pending_orders
    /\ ~bot => DOMAIN pending_orders = 1..pending_seq

\* C15: when the Invoice Issuer call fails, or no bot is configured, request
\* invoice answers with status 500 and the failure message and returns no link;
\* the pending order it saved before the call, whose id was the payload, stays in
\* the Pending Order Store, which loses an entry only to a successful
\* confirmation for that entry's id.
C15_IssuerFailureLeavesPendingOrder ==
    [](C15_FailedStay) /\ [][C15_Failure /\ C15_NoBotNoLink /\ C15_RemovedByConfirmation]_vars

\* the call for pending order 2 failed and it is still stored, while pending
\* order 1 was paid and is gone
C15_Witness ==
    /\ [payload |-> Str(2), ok |-> FALSE] \in issuer_calls
    /\ DOMAIN pending_orders = {2}
    /\ Len(orders) >= 1

====
